---------------------------- MODULE Spec2Model ----------------------------
(***************************************************************************)
(* Model of the thumbnail loading pipeline of hyprwall (src/gui.rs):       *)
(* ImageCache (LRU cache), ImageLoader::load_folder (directory scan),      *)
(* load_images (one load generation: cancel flag, worker thread, channel,  *)
(* idle drain closure) and refresh_images.                                 *)
(***************************************************************************)
EXTENDS Integers, Sequences, FiniteSets, TLC

(***************************************************************************)
(* Bounds of the model.  The program's CACHE_SIZE is 100 (gui.rs:28) and   *)
(* the drain closure polls 10 times per tick (gui.rs:336); both are scaled *)
(* down here so that eviction and a tick that ends at its poll limit with  *)
(* results still on the channel happen with a handful of paths.            *)
(***************************************************************************)
CACHE_SIZE == 2
TICK_POLLS == 1
MaxGen == 2
NumThreads == 2
MaxOrderLen == 4

(* Option::None of a path, a texture or an extension; of a folder. *)
None == <<>>
NoFolder == "None"

(***************************************************************************)
(* File names are sequences of tokens; the token "." is the dot character. *)
(***************************************************************************)
Dot == "."

A_PNG == <<"a", Dot, "png">>
B_JPG == <<"b", Dot, "jpg">>
C_TXT == <<"c", Dot, "txt">>
D_JPEG_UPPER == <<"d", Dot, "JPEG">>
E_JPEG == <<"e", Dot, "jpeg">>
SUB == <<"sub">>
HIDDEN_PNG == <<Dot, "png">>
DIR_PNG == <<"dir", Dot, "png">>
X_PNG == <<"x", Dot, "png">>
Y_JPEG == <<"y", Dot, "jpeg">>

File(n) == [name |-> n, is_file |-> TRUE]
Folder(n) == [name |-> n, is_file |-> FALSE]

(* A directory listing: fs::read_dir either fails or yields entries. *)
Unreadable == [readable |-> FALSE, entries |-> {}]
Listing(es) == [readable |-> TRUE, entries |-> es]

(* Path::extension(): the part of the file name after its last dot; none  *)
(* when there is no dot or when the name has nothing before its last dot. *)
RECURSIVE LastDot(_, _)
LastDot(name, i) ==
    IF i = 0 THEN 0
    ELSE IF name[i] = Dot THEN i
    ELSE LastDot(name, i - 1)

extension(name) ==
    LET d == LastDot(name, Len(name))
    IN  IF d = 0 \/ d = 1 THEN None
        ELSE SubSeq(name, d + 1, Len(name))

AllowedExt == {<<"png">>, <<"jpg">>, <<"jpeg">>}

(* The filter_map closure of load_folder (gui.rs:95-107). *)
FilterEntryAnyCase(e) ==
    /\ e.is_file
    /\ extension(e.name) \in AllowedExt \cup {<<"PNG">>, <<"JPG">>, <<"JPEG">>}
FilterEntry(e) ==
    /\ e.is_file
    /\ extension(e.name) \in AllowedExt

MkPath(folder, name) == <<folder, name>>

(* ImageLoader::load_folder without its flag store: the new queue and     *)
(* current_folder for a folder whose listing is `listing`.                *)
load_folder_fallback(folder, listing) ==
    [queue |-> IF listing.readable
               THEN {MkPath(folder, e.name) : e \in {x \in listing.entries : FilterEntry(x)}}
               ELSE {MkPath("A", A_PNG)},
     current_folder |-> folder]
load_folder(folder, listing) ==
    [queue |-> IF listing.readable
               THEN {MkPath(folder, e.name) : e \in {x \in listing.entries : FilterEntry(x)}}
               ELSE {},
     current_folder |-> folder]

(***************************************************************************)
(* ImageCache: `cache` is the HashMap (a function on the cached paths),    *)
(* `order` the VecDeque, front first.                                      *)
(***************************************************************************)
Tex(path) == <<"tex", path>>

RECURSIVE Retain(_, _)
Retain(s, path) ==
    IF s = <<>> THEN <<>>
    ELSE IF Head(s) = path THEN Retain(Tail(s), path)
    ELSE <<Head(s)>> \o Retain(Tail(s), path)

MapRemove(m, path) == [q \in (DOMAIN m) \ {path} |-> m[q]]
MapPut(m, path, t) == [q \in (DOMAIN m) \cup {path} |-> IF q = path THEN t ELSE m[q]]

NewCache == [cache |-> [q \in {} |-> None], order |-> <<>>]

(* ImageCache::get *)
getNoRetain(c, path) ==
    IF path \in DOMAIN c.cache
    THEN [res |-> c.cache[path],
          c |-> [cache |-> c.cache, order |-> <<path>> \o c.order]]
    ELSE [res |-> None, c |-> c]
getNoPromote(c, path) ==
    IF path \in DOMAIN c.cache
    THEN [res |-> c.cache[path], c |-> c]
    ELSE [res |-> None, c |-> c]
get(c, path) ==
    IF path \in DOMAIN c.cache
    THEN [res |-> c.cache[path],
          c |-> [cache |-> c.cache, order |-> <<path>> \o Retain(c.order, path)]]
    ELSE [res |-> None, c |-> c]

(* The eviction step of ImageCache::insert (gui.rs:58-62). *)
Evict(c) ==
    IF Cardinality(DOMAIN c.cache) >= CACHE_SIZE /\ c.order # <<>>
    THEN [cache |-> MapRemove(c.cache, c.order[Len(c.order)]),
          order |-> SubSeq(c.order, 1, Len(c.order) - 1)]
    ELSE c

(* ImageCache::insert *)
insert(c, path, texture) ==
    LET e == Evict(c)
    IN  [cache |-> MapPut(e.cache, path, texture), order |-> <<path>> \o e.order]

(* ImageCache::get_or_insert; decode_ok is the outcome of                 *)
(* Pixbuf::from_file_at_scale when the path is not cached.                *)
get_or_insert_negative(c, path, decode_ok) ==
    LET g == get(c, path)
    IN  IF g.res # None THEN [res |-> g.res, c |-> g.c, decoded |-> FALSE]
        ELSE IF decode_ok
             THEN [res |-> Tex(path), c |-> insert(g.c, path, Tex(path)), decoded |-> TRUE]
             ELSE [res |-> None, c |-> insert(g.c, path, None), decoded |-> TRUE]
get_or_insert(c, path, decode_ok) ==
    LET g == get(c, path)
    IN  IF g.res # None THEN [res |-> g.res, c |-> g.c, decoded |-> FALSE]
        ELSE IF decode_ok
             THEN [res |-> Tex(path), c |-> insert(g.c, path, Tex(path)), decoded |-> TRUE]
             ELSE [res |-> None, c |-> g.c, decoded |-> TRUE]


(***************************************************************************)
(* State.                                                                  *)
(***************************************************************************)
VARIABLES
    fs,             \* the directories on disk: folder -> listing
    image_cache,    \* ImageLoader.cache: the ImageCache behind the mutex
    lock,           \* holder of the cache mutex: None or <<generation, path>>
    queue,          \* ImageLoader.queue
    current_folder, \* ImageLoader.current_folder
    cancel_flag,    \* ImageLoader.cancel_flag: 0 (None) or the generation whose flag it holds
    ui,             \* position of the UI thread inside load_images, with its locals
    ngen,           \* number of generations load_images has created
    flag,           \* per generation: its AtomicBool
    thread,         \* per generation: the std::thread of gui.rs:303
    task,           \* per generation: per batch path, the state of its for_each_with task
    chan,           \* per generation: the messages in the unbounded channel
    sink,           \* per generation: the idle_add_local closure
    grid,           \* children of the flowbox, in order
    batch,          \* history: per generation, the batch it was spawned with
    touch,          \* history: cached-or-not paths by last touch, most recent first
    last            \* history: the last ImageCache operation

vars == <<fs, image_cache, lock, queue, current_folder, cancel_flag, ui, ngen,
          flag, thread, task, chan, sink, grid, batch, touch, last>>

pipeVars == <<lock, queue, current_folder, cancel_flag, ui, ngen,
              flag, thread, task, chan, sink, grid, batch>>

Gens == 1 .. MaxGen

(* The folders of the pipeline model. *)
MainFS ==
    [f \in {"A", "B", "missing"} |->
        CASE f = "A" -> Listing({File(A_PNG), File(B_JPG), File(C_TXT),
                                 File(D_JPEG_UPPER), Folder(SUB)})
          [] f = "B" -> Listing({File(X_PNG), File(Y_JPEG)})
          [] OTHER   -> Unreadable]

PathA == MkPath("A", A_PNG)
PathB == MkPath("A", B_JPG)
PathX == MkPath("B", X_PNG)
PathY == MkPath("B", Y_JPEG)

(* Files Pixbuf::from_file_at_scale cannot decode. *)
Corrupt == {PathB}
DecodeOutcomes(path) == IF path \in Corrupt THEN {FALSE} ELSE {TRUE}

Idle == [pc |-> "idle", folder |-> NoFolder, batch |-> {}]

NoOp == [op |-> "none", path |-> None, res |-> None, decoded |-> FALSE, evicted |-> {}]

Touch(t, path) == <<path>> \o Retain(t, path)

InitCommon ==
    /\ image_cache = NewCache
    /\ lock = None
    /\ queue = {}
    /\ current_folder = NoFolder
    /\ cancel_flag = 0
    /\ ui = Idle
    /\ ngen = 0
    /\ flag = [g \in Gens |-> FALSE]
    /\ thread = [g \in Gens |-> "none"]
    /\ task = [g \in Gens |-> [p \in {} |-> None]]
    /\ chan = [g \in Gens |-> <<>>]
    /\ sink = [g \in Gens |-> "none"]
    /\ grid = <<>>
    /\ batch = [g \in Gens |-> {}]
    /\ touch = <<>>
    /\ last = NoOp

Init ==
    /\ fs = MainFS
    /\ InitCommon

(***************************************************************************)
(* load_images, on the UI thread.                                          *)
(***************************************************************************)
(* flag.store(true) on the flag ImageLoader holds (gui.rs:283-285, 88-90). *)
CancelPreviousNever(fl, cf) == fl
CancelPreviousToggle(fl, cf) == IF cf # 0 THEN [fl EXCEPT ![cf] = ~@] ELSE fl
CancelPrevious(fl, cf) == IF cf # 0 THEN [fl EXCEPT ![cf] = TRUE] ELSE fl

BeginLoad(folder) ==
    /\ ui.pc = "idle"
    /\ ngen < MaxGen
    /\ flag' = CancelPrevious(flag, cancel_flag)
    /\ ui' = [pc |-> "load_folder", folder |-> folder, batch |-> {}]
    /\ UNCHANGED <<fs, image_cache, lock, queue, current_folder, cancel_flag, ngen,
                   thread, task, chan, sink, grid, batch, touch, last>>

(* load_images called from choose_folder or from the window's show handler. *)
LoadImages == \E folder \in DOMAIN fs : BeginLoad(folder)

(* refresh_images *)
RefreshImages ==
    /\ current_folder # NoFolder
    /\ BeginLoad(current_folder)

(* image_loader.load_folder(folder), gui.rs:287 *)
LoadFolder ==
    /\ ui.pc = "load_folder"
    /\ LET r == load_folder(ui.folder, fs[ui.folder])
       IN  /\ flag' = CancelPrevious(flag, cancel_flag)
           /\ queue' = r.queue
           /\ current_folder' = r.current_folder
    /\ ui' = [ui EXCEPT !.pc = "drain"]
    /\ UNCHANGED <<fs, image_cache, lock, cancel_flag, ngen,
                   thread, task, chan, sink, grid, batch, touch, last>>

(* The flowbox clear loop, gui.rs:295-297. *)
ClearGridKeep(gr) == gr
ClearGrid(gr) == <<>>

(* queue.drain(..) into batch, then the clear loop: gui.rs:289-297 *)
DrainAndClear ==
    /\ ui.pc = "drain"
    /\ ui' = [ui EXCEPT !.pc = "spawn", !.batch = queue]
    /\ queue' = {}
    /\ grid' = ClearGrid(grid)
    /\ UNCHANGED <<fs, image_cache, lock, current_folder, cancel_flag, ngen,
                   flag, thread, task, chan, sink, batch, touch, last>>

Pending == [st |-> "pending", tex |-> None]

(* New flag, thread::spawn, idle_add_local, cancel_flag = Some(..): gui.rs:299-383 *)
Spawn ==
    /\ ui.pc = "spawn"
    /\ LET g == ngen + 1
       IN  /\ ngen' = g
           /\ flag' = [flag EXCEPT ![g] = FALSE]
           /\ thread' = [thread EXCEPT ![g] = "running"]
           /\ task' = [task EXCEPT ![g] = [p \in ui.batch |-> Pending]]
           /\ chan' = [chan EXCEPT ![g] = <<>>]
           /\ sink' = [sink EXCEPT ![g] = "scheduled"]
           /\ batch' = [batch EXCEPT ![g] = ui.batch]
           /\ cancel_flag' = g
    /\ ui' = Idle
    /\ UNCHANGED <<fs, image_cache, lock, queue, current_folder, grid, touch, last>>

(***************************************************************************)
(* The worker thread: one task per batch path (the for_each_with closure), *)
(* run by at most NumThreads pool threads at a time.                       *)
(***************************************************************************)
Running == {"checked", "locked", "tosend"}
Finished == {"skipped", "failed", "sent", "dropped"}

Active == {gp \in {<<g, p>> : g \in Gens, p \in UNION {DOMAIN task[h] : h \in Gens}} :
              /\ gp[2] \in DOMAIN task[gp[1]]
              /\ task[gp[1]][gp[2]].st \in Running}

SetTask(g, p, st, tex) == [task EXCEPT ![g][p] = [st |-> st, tex |-> tex]]

(* cancel_flag_clone.load at the head of the closure, gui.rs:309-311 *)
CheckFlagIgnore(fl) == FALSE
CheckFlagInverted(fl) == ~fl
CheckFlag(fl) == fl

TaskCheck(g, p) ==
    /\ thread[g] = "running"
    /\ p \in DOMAIN task[g]
    /\ task[g][p].st = "pending"
    /\ Cardinality(Active) < NumThreads
    /\ task' = IF CheckFlag(flag[g]) THEN SetTask(g, p, "skipped", None)
                                     ELSE SetTask(g, p, "checked", None)
    /\ UNCHANGED <<fs, image_cache, lock, queue, current_folder, cancel_flag, ui, ngen,
                   flag, thread, chan, sink, grid, batch, touch, last>>

(* The match on get_or_insert's result, gui.rs:314-320: a texture goes on  *)
(* to the send, a failure ends this path's task only.                      *)
TaskResultAbortBatch(g, p, res) ==
    IF res # None THEN SetTask(g, p, "tosend", res)
    ELSE [task EXCEPT ![g] = [q \in DOMAIN task[g] |->
             IF q = p THEN [st |-> "failed", tex |-> None]
             ELSE IF task[g][q].st = "pending" THEN [st |-> "skipped", tex |-> None]
             ELSE task[g][q]]]
TaskResult(g, p, res) ==
    IF res # None THEN SetTask(g, p, "tosend", res)
                  ELSE SetTask(g, p, "failed", None)

(* cache.lock() returns once no other task holds the mutex, gui.rs:313 *)
LockFreeAlways(l) == TRUE
LockFree(l) == l = None

(* The guard `cache` goes out of scope at the end of the block, gui.rs:321 *)
ReleaseLockNever(l) == l
ReleaseLock(l) == None

(* cache.lock(), gui.rs:313 *)
TaskLock(g, p) ==
    /\ p \in DOMAIN task[g]
    /\ task[g][p].st = "checked"
    /\ LockFree(lock)
    /\ lock' = <<g, p>>
    /\ task' = SetTask(g, p, "locked", None)
    /\ UNCHANGED <<fs, image_cache, queue, current_folder, cancel_flag, ui, ngen,
                   flag, thread, chan, sink, grid, batch, touch, last>>

(* cache.get_or_insert(path, 250) and the end of the lock scope, gui.rs:314-321 *)
TaskGetOrInsert(g, p) ==
    /\ p \in DOMAIN task[g]
    /\ task[g][p].st = "locked"
    /\ lock = <<g, p>>
    /\ \E ok \in DecodeOutcomes(p) :
          LET r == get_or_insert(image_cache, p, ok)
          IN  /\ image_cache' = r.c
              /\ task' = TaskResult(g, p, r.res)
              /\ touch' = IF r.res # None THEN Touch(touch, p) ELSE touch
              /\ last' = [op |-> "get_or_insert", path |-> p, res |-> r.res,
                          decoded |-> r.decoded,
                          evicted |-> (DOMAIN image_cache.cache) \ (DOMAIN r.c.cache)]
    /\ lock' = ReleaseLock(lock)
    /\ UNCHANGED <<fs, queue, current_folder, cancel_flag, ui, ngen,
                   flag, thread, chan, sink, grid, batch>>

ReceiverAlive(g) == sink[g] = "scheduled"

(* s.send(..) and the store on failure, gui.rs:323-326 *)
TaskSend(g, p) ==
    /\ p \in DOMAIN task[g]
    /\ task[g][p].st = "tosend"
    /\ IF ReceiverAlive(g)
       THEN /\ chan' = [chan EXCEPT ![g] = Append(@, [texture |-> task[g][p].tex, path |-> p])]
            /\ task' = SetTask(g, p, "sent", None)
            /\ flag' = flag
       ELSE /\ flag' = [flag EXCEPT ![g] = TRUE]
            /\ task' = SetTask(g, p, "dropped", None)
            /\ chan' = chan
    /\ UNCHANGED <<fs, image_cache, lock, queue, current_folder, cancel_flag, ui, ngen,
                   thread, sink, grid, batch, touch, last>>

(* for_each_with returns and the closure of thread::spawn ends: the batch *)
(* and every sender are dropped, gui.rs:327-328                            *)
ThreadExit(g) ==
    /\ thread[g] = "running"
    /\ \A p \in DOMAIN task[g] : task[g][p].st \in Finished
    /\ thread' = [thread EXCEPT ![g] = "exited"]
    /\ task' = [task EXCEPT ![g] = [p \in {} |-> None]]
    /\ UNCHANGED <<fs, image_cache, lock, queue, current_folder, cancel_flag, ui, ngen,
                   flag, chan, sink, grid, batch, touch, last>>

(***************************************************************************)
(* The idle_add_local closure: one tick, gui.rs:330-381                    *)
(***************************************************************************)
(* `for _ in 0..10` around try_recv: as many results as the channel holds, *)
(* at most the poll limit, gui.rs:336-338                                 *)
MinIgnoreLimit(a, b) == a
Min(a, b) == IF a < b THEN a ELSE b

Rendered(g, msgs) == [i \in 1 .. Len(msgs) |-> [gen |-> g, path |-> msgs[i].path]]

(* Every sender is gone: `sender` was moved into the thread's closure and *)
(* its clones live inside for_each_with, gui.rs:303-328                   *)
SendersDroppedNever(g) == FALSE
SendersDropped(g) == thread[g] = "exited"

(* cancel_flag_clone2.load at the head of the tick, gui.rs:331-333 *)
SinkSeesFlagNever(fl) == FALSE
SinkSeesFlag(fl) == fl

SinkTick(g) ==
    /\ ui.pc = "idle"
    /\ sink[g] = "scheduled"
    /\ IF SinkSeesFlag(flag[g])
       THEN /\ sink' = [sink EXCEPT ![g] = "cancelled"]
            /\ chan' = [chan EXCEPT ![g] = <<>>]
            /\ UNCHANGED <<flag, grid>>
       ELSE LET n == Min(Len(chan[g]), TICK_POLLS)
                disconnected == n < TICK_POLLS /\ SendersDropped(g)
            IN  /\ grid' = grid \o Rendered(g, SubSeq(chan[g], 1, n))
                /\ chan' = [chan EXCEPT ![g] = SubSeq(@, n + 1, Len(@))]
                /\ IF disconnected
                   THEN /\ flag' = [flag EXCEPT ![g] = TRUE]
                        /\ sink' = [sink EXCEPT ![g] = "disconnected"]
                   ELSE UNCHANGED <<flag, sink>>
    /\ UNCHANGED <<fs, image_cache, lock, queue, current_folder, cancel_flag, ui, ngen,
                   thread, task, batch, touch, last>>

AllPaths == {PathA, PathB, PathX, PathY}

Worker ==
    \E g \in Gens : \E p \in AllPaths :
        \/ TaskCheck(g, p)
        \/ TaskLock(g, p)
        \/ TaskGetOrInsert(g, p)
        \/ TaskSend(g, p)

Next ==
    \/ LoadImages
    \/ RefreshImages
    \/ LoadFolder
    \/ DrainAndClear
    \/ Spawn
    \/ Worker
    \/ \E g \in Gens : ThreadExit(g)
    \/ \E g \in Gens : SinkTick(g)

Spec == Init /\ [][Next]_vars

TypeOK ==
    /\ ngen \in 0 .. MaxGen
    /\ cancel_flag \in 0 .. MaxGen
    /\ ui.pc \in {"idle", "load_folder", "drain", "spawn"}
    /\ \A g \in Gens : sink[g] \in {"none", "scheduled", "cancelled", "disconnected"}
    /\ \A g \in Gens : thread[g] \in {"none", "running", "exited"}


(***************************************************************************)
(* Fair scheduling: the glib main loop keeps running the UI thread and its *)
(* idle sources, started threads keep running; nothing obliges the user to *)
(* request another load.                                                   *)
(***************************************************************************)
Fairness ==
    /\ WF_vars(LoadFolder)
    /\ WF_vars(DrainAndClear)
    /\ WF_vars(Spawn)
    /\ WF_vars(Worker)
    /\ \A g \in Gens : WF_vars(ThreadExit(g))
    /\ \A g \in Gens : WF_vars(SinkTick(g))

FairSpec == Init /\ [][Next]_vars /\ Fairness

(***************************************************************************)
(* ImageCache on its own: get, insert and get_or_insert called in any      *)
(* order on a cache that starts empty.                                     *)
(***************************************************************************)
AltTex(path) == <<"alt", path>>

Evicted(c) == (DOMAIN c.cache) \ (DOMAIN Evict(c).cache)
Popped(c) == Len(c.order) - Len(Evict(c).order)

CacheGet(path) ==
    LET r == get(image_cache, path)
    IN  /\ image_cache' = r.c
        /\ touch' = IF r.res # None THEN Touch(touch, path) ELSE touch
        /\ last' = [op |-> "get", path |-> path, res |-> r.res,
                    decoded |-> FALSE, evicted |-> {}]
        /\ UNCHANGED <<fs, pipeVars>>

CacheInsert(path, texture) ==
    /\ Len(image_cache.order) < MaxOrderLen
    /\ image_cache' = insert(image_cache, path, texture)
    /\ touch' = Touch(touch, path)
    /\ last' = [op |-> "insert", path |-> path, res |-> None,
                decoded |-> FALSE, evicted |-> Evicted(image_cache)]
    /\ UNCHANGED <<fs, pipeVars>>

CacheGetOrInsert(path, decode_ok) ==
    /\ Len(image_cache.order) < MaxOrderLen
    /\ LET r == get_or_insert(image_cache, path, decode_ok)
       IN  /\ image_cache' = r.c
           /\ touch' = IF r.res # None THEN Touch(touch, path) ELSE touch
           /\ last' = [op |-> "get_or_insert", path |-> path, res |-> r.res,
                       decoded |-> r.decoded,
                       evicted |-> (DOMAIN image_cache.cache) \ (DOMAIN r.c.cache)]
    /\ UNCHANGED <<fs, pipeVars>>

CacheNext ==
    \/ \E path \in AllPaths : CacheGet(path)
    \/ \E path \in AllPaths : \E texture \in {Tex(path), AltTex(path)} : CacheInsert(path, texture)
    \/ \E path \in AllPaths : \E decode_ok \in BOOLEAN : CacheGetOrInsert(path, decode_ok)

CacheSpec == Init /\ [][CacheNext]_vars

(***************************************************************************)
(* The cache as the running program uses it: get_or_insert is the only     *)
(* call made on it (gui.rs:314), on any path and with any decode outcome.  *)
(***************************************************************************)
GetOrInsertNext ==
    \E path \in AllPaths : \E decode_ok \in BOOLEAN : CacheGetOrInsert(path, decode_ok)

GetOrInsertSpec == Init /\ [][GetOrInsertNext]_vars

(***************************************************************************)
(* load_folder on its own: any directory over a small universe of names.   *)
(***************************************************************************)
ScanNames == {A_PNG, B_JPG, C_TXT, D_JPEG_UPPER, E_JPEG, SUB, HIDDEN_PNG, DIR_PNG}

ScanListings ==
    {Unreadable} \cup
    {Listing({[name |-> n, is_file |-> (k[n] = "file")] : n \in {m \in ScanNames : k[m] # "absent"}}) :
        k \in [ScanNames -> {"absent", "file", "dir"}]}

ScanInit ==
    /\ fs \in [{"S"} -> ScanListings]
    /\ image_cache = NewCache
    /\ lock = None
    /\ queue = {}
    /\ current_folder = NoFolder
    /\ cancel_flag = 0
    /\ ui = [pc |-> "load_folder", folder |-> "S", batch |-> {}]
    /\ ngen = 0
    /\ flag = [g \in Gens |-> FALSE]
    /\ thread = [g \in Gens |-> "none"]
    /\ task = [g \in Gens |-> [p \in {} |-> None]]
    /\ chan = [g \in Gens |-> <<>>]
    /\ sink = [g \in Gens |-> "none"]
    /\ grid = <<>>
    /\ batch = [g \in Gens |-> {}]
    /\ touch = <<>>
    /\ last = NoOp

ScanSpec == ScanInit /\ [][LoadFolder]_vars


(***************************************************************************)
(* Properties.                                                             *)
(***************************************************************************)
Stopped == {"cancelled", "disconnected"}

(* A later load_images call has begun: it has stored true into g's flag. *)
Superseded(g) == g <= ngen /\ (g < ngen \/ ui.pc # "idle")

CountGen(gr, g) == Cardinality({i \in DOMAIN gr : gr[i].gen = g})

(* C1: once a later load_images has started, no step adds a grid entry of *)
(* the superseded generation, whatever its workers and its sink still do. *)
C1_NoStaleRender ==
    [][\A g \in Gens : Superseded(g) => CountGen(grid', g) <= CountGen(grid, g)]_vars

(* A result of generation 1 waits in its channel, one of its workers is   *)
(* still running and its sink is still scheduled after generation 2       *)
(* started.                                                               *)
C1_Witness ==
    /\ ngen = 2
    /\ flag[1]
    /\ sink[1] = "scheduled"
    /\ chan[1] # <<>>
    /\ \E p \in DOMAIN task[1] : task[1][p].st \in Running

(* C2: the cache map never holds more than CACHE_SIZE entries, after any  *)
(* sequence of insert and get, insert of a cached path included.          *)
C2_CapacityBound == Cardinality(DOMAIN image_cache.cache) <= CACHE_SIZE

(* The cached path touched least recently, by the touch history. *)
RECURSIVE LruOf(_, _)
LruOf(cached, t) ==
    IF t = <<>> THEN None
    ELSE IF t[Len(t)] \in cached THEN t[Len(t)]
    ELSE LruOf(cached, SubSeq(t, 1, Len(t) - 1))

(* C3: an insert into a full cache removes exactly one entry, the cached  *)
(* path touched least recently; after any insert the inserted path is     *)
(* cached and is at the front of the recency order.                       *)
C3_LruVictim ==
    [][last'.op = "insert" =>
          /\ (Cardinality(DOMAIN image_cache.cache) >= CACHE_SIZE =>
                 last'.evicted = {LruOf(DOMAIN image_cache.cache, touch)})
          /\ last'.path \in DOMAIN image_cache'.cache
          /\ Head(image_cache'.order) = last'.path]_vars


(* C4: under fair scheduling, once the workers of a generation have       *)
(* finished, its sink observes the disconnect unless a later load         *)
(* supersedes the generation, and a sink that has stopped never runs      *)
(* again.                                                                  *)
C4_DrainTermination ==
    /\ \A g \in Gens : [](thread[g] = "exited" =>
                            <>(sink[g] = "disconnected" \/ Superseded(g)))
    /\ [][\A g \in Gens : sink[g] \in Stopped => sink'[g] = sink[g]]_vars

(* Generation 1 had an empty batch and generation 2 a batch of two paths; *)
(* both sinks stopped on the disconnect.                                  *)
C4_Witness ==
    /\ batch[1] = {} /\ thread[1] = "exited" /\ sink[1] = "disconnected"
    /\ batch[2] = {PathX, PathY} /\ thread[2] = "exited" /\ sink[2] = "disconnected"

(* C5: when the sink of a generation that was not superseded has stopped, *)
(* the grid holds one entry for each batch path that decodes, and nothing *)
(* else.                                                                   *)
C5_ExactRendering ==
    \A g \in Gens :
        (sink[g] \in Stopped /\ ~Superseded(g)) =>
            /\ {grid[i] : i \in DOMAIN grid} =
                   {[gen |-> g, path |-> p] : p \in batch[g] \ Corrupt}
            /\ Len(grid) = Cardinality(batch[g] \ Corrupt)

(* The batch with the corrupt file was drained: one entry, for a.png. *)
C5_Witness ==
    /\ ngen = 2 /\ ui.pc = "idle"
    /\ batch[2] = {PathA, PathB}
    /\ sink[2] = "disconnected"
    /\ grid = <<[gen |-> 2, path |-> PathA]>>

(* C6: get_or_insert on an uncached path always decodes; when the decode  *)
(* fails it returns nothing and leaves map and order as they were, when   *)
(* it succeeds it returns the texture and caches it; on a cached path it  *)
(* returns the stored texture without decoding.                           *)
C6_NoNegativeCaching ==
    [][last'.op = "get_or_insert" =>
          IF last'.path \in DOMAIN image_cache.cache
          THEN /\ ~last'.decoded
               /\ last'.res = image_cache.cache[last'.path]
          ELSE /\ last'.decoded
               /\ last'.res = None => image_cache' = image_cache
               /\ last'.res # None =>
                     /\ last'.res = Tex(last'.path)
                     /\ last'.path \in DOMAIN image_cache'.cache
                     /\ image_cache'.cache[last'.path] = last'.res]_vars

(* A failed decode on a cache that already holds entries. *)
C6_Witness ==
    /\ last.op = "get_or_insert"
    /\ last.decoded
    /\ last.res = None
    /\ last.path \notin DOMAIN image_cache.cache
    /\ DOMAIN image_cache.cache # {}

(* The spec's reading of "extension": the name ends in a dot and one of   *)
(* the three lower-case suffixes, with something before the dot.          *)
HasImageSuffix(n) ==
    /\ Len(n) >= 3
    /\ n[Len(n) - 1] = Dot
    /\ n[Len(n)] \in {"png", "jpg", "jpeg"}

ExampleDir ==
    Listing({File(A_PNG), File(B_JPG), File(C_TXT), File(D_JPEG_UPPER), Folder(SUB)})

(* C7: after load_folder the queue holds exactly the regular files of the *)
(* directory that end in .png, .jpg or .jpeg; for the example directory   *)
(* that is a.png and b.jpg.                                                *)
C7_ScanFiltering ==
    ui.pc = "drain" =>
        /\ queue = {MkPath(ui.folder, e.name) :
                       e \in {x \in fs[ui.folder].entries : x.is_file /\ HasImageSuffix(x.name)}}
        /\ fs[ui.folder] = ExampleDir =>
               queue = {MkPath(ui.folder, A_PNG), MkPath(ui.folder, B_JPG)}

C7_Witness ==
    /\ ui.pc = "drain"
    /\ fs[ui.folder] = ExampleDir
    /\ queue = {MkPath(ui.folder, A_PNG), MkPath(ui.folder, B_JPG)}

(* A generation whose flag is false and whose sink is still scheduled. *)
Live(g) == g <= ngen /\ ~flag[g] /\ sink[g] = "scheduled"

(* C8: at most one generation has a false flag and a scheduled sink, and  *)
(* a generation has workers or a sink only once its predecessor's flag is *)
(* true.                                                                   *)
C8_OneLiveGeneration ==
    /\ Cardinality({g \in Gens : Live(g)}) <= 1
    /\ \A g \in Gens :
          (g > 1 /\ (thread[g] # "none" \/ sink[g] # "none")) => flag[g - 1]

(* Generation 2 is live while the sink and a worker of generation 1 are   *)
(* still around.                                                           *)
C8_Witness ==
    /\ Live(2)
    /\ sink[1] = "scheduled"
    /\ thread[1] = "running"

(* C9: a worker of a generation whose flag is true never puts a result on *)
(* the channel.                                                            *)
C9_NoSendAfterCancel ==
    [][\A g \in Gens : flag[g] => Len(chan'[g]) <= Len(chan[g])]_vars

(* C10: the grid shows entries of the newest generation only, and it is   *)
(* empty when the new generation's workers and sink are about to start.   *)
C10_GridCleared ==
    /\ \A i \in DOMAIN grid : grid[i].gen = ngen
    /\ ui.pc = "spawn" => grid = <<>>

(* Generation 1 rendered its batch, generation 2 shows its own entries. *)
C10_Witness ==
    /\ ngen = 2
    /\ sink[1] = "disconnected"
    /\ batch[1] \ Corrupt # {}
    /\ grid # <<>>

(* The entries of a recency order other than `path`, in their order. *)
Others(s, path) == SelectSeq(s, LAMBDA q : q # path)

(* C11: get on a cached path returns the stored texture, puts the path at *)
(* the front of the order once, and keeps the map and the order of the    *)
(* other entries; get on an uncached path returns nothing and changes     *)
(* neither map nor order.                                                  *)
C11_GetPromotes ==
    [][last'.op = "get" =>
          IF last'.path \in DOMAIN image_cache.cache
          THEN /\ last'.res = image_cache.cache[last'.path]
               /\ image_cache'.cache = image_cache.cache
               /\ Head(image_cache'.order) = last'.path
               /\ Others(Tail(image_cache'.order), last'.path) = Tail(image_cache'.order)
               /\ Others(image_cache'.order, last'.path) =
                      Others(image_cache.order, last'.path)
          ELSE /\ last'.res = None
               /\ image_cache' = image_cache]_vars

(* A hit on a path that was not at the front of an order of two paths. *)
C11_Witness ==
    /\ last.op = "get"
    /\ last.res # None
    /\ Len(image_cache.order) >= 2
    /\ Head(image_cache.order) = last.path
    /\ touch # <<>> /\ Head(touch) = last.path
    /\ Cardinality(DOMAIN image_cache.cache) = 2

(* C12: load_images of a folder whose listing fails goes on with an empty *)
(* queue and an empty batch; a generation with an empty batch has no task *)
(* to run and nothing on its channel, never has a grid entry, and unless  *)
(* it is superseded its sink stops on disconnect.                         *)
C12_UnreadableFolder ==
    /\ [](ui.pc = "drain" /\ ~fs[ui.folder].readable => queue = {})
    /\ [](ui.pc = "spawn" /\ ~fs[ui.folder].readable => ui.batch = {})
    /\ [][ui.pc = "spawn" /\ ui'.pc = "idle" =>
              /\ batch'[ngen'] = ui.batch
              /\ thread'[ngen'] = "running"
              /\ sink'[ngen'] = "scheduled"]_vars
    /\ \A g \in Gens :
          [](g <= ngen /\ batch[g] = {} =>
                /\ DOMAIN task[g] = {}
                /\ chan[g] = <<>>
                /\ \A i \in DOMAIN grid : grid[i].gen # g)
    /\ \A g \in Gens :
          (g <= ngen /\ batch[g] = {}) ~> (thread[g] = "exited")
    /\ \A g \in Gens :
          (g <= ngen /\ batch[g] = {}) ~> (sink[g] = "disconnected" \/ Superseded(g))

(* The only load was of the folder that cannot be read; its generation has *)
(* ended with an empty grid.                                               *)
C12_Witness ==
    /\ ngen = 1
    /\ ui.pc = "idle"
    /\ current_folder = "missing"
    /\ batch[1] = {}
    /\ thread[1] = "exited"
    /\ sink[1] = "disconnected"
    /\ grid = <<>>

(* C13: the flag of a generation is false when the generation is created, *)
(* and no step of a worker, a sink or load_images turns a true flag back  *)
(* to false.                                                               *)
C13_FlagMonotonic ==
    /\ [](\A g \in Gens : g > ngen => ~flag[g])
    /\ [][ngen' # ngen => ngen' = ngen + 1 /\ ~flag'[ngen']]_vars
    /\ [][\A g \in Gens : flag[g] => flag'[g]]_vars

(* Generation 1 was cancelled by a second load; its sink saw the flag and *)
(* its thread ended while generation 2 was running.                       *)
C13_Witness ==
    /\ ngen = 2
    /\ flag[1]
    /\ sink[1] = "cancelled"
    /\ thread[1] = "exited"
    /\ thread[2] = "running"
    /\ ~flag[2]

(* C14: a generation's flag is true only if a later load_images call has  *)
(* superseded the generation; a generation that is not superseded has a   *)
(* false flag, also once its thread has ended and its sink has stopped.   *)
C14_NeverSelfCancels ==
    \A g \in Gens : flag[g] => Superseded(g)

(* C15: load_folder sets current_folder to the folder it was given when   *)
(* the listing of that folder succeeds and leaves current_folder as it    *)
(* was when the listing fails.                                             *)
C15_CurrentFolderScanned ==
    [][ui.pc = "load_folder" /\ ui'.pc = "drain" =>
          current_folder' = IF fs[ui.folder].readable THEN ui.folder
                                                      ELSE current_folder]_vars

(* The tasks of generation g that have not ended. *)
Unfinished(g) == {p \in DOMAIN task[g] : task[g][p].st \notin Finished}

(* C16: the thread of every generation, superseded or not, ends; a task   *)
(* at its send can always take the step, a task waiting for the cache     *)
(* lock can take it whenever the lock is free, the holder of the lock is  *)
(* a task inside the lock scope and never one at its send, and the tasks  *)
(* of a generation that are left to do only become fewer.                 *)
C16_WorkerQuiescence ==
    /\ \A g \in Gens : (thread[g] = "running") ~> (thread[g] = "exited")
    /\ [](\A g \in Gens : \A p \in DOMAIN task[g] :
             /\ task[g][p].st = "tosend" => lock # <<g, p>> /\ ENABLED TaskSend(g, p)
             /\ task[g][p].st = "checked" /\ lock = None => ENABLED TaskLock(g, p)
             /\ task[g][p].st = "locked" => lock = <<g, p>> /\ ENABLED TaskGetOrInsert(g, p))
    /\ [](lock # None => /\ lock[2] \in DOMAIN task[lock[1]]
                         /\ task[lock[1]][lock[2]].st = "locked")
    /\ [][\A g \in Gens : thread[g] = "running" =>
             Unfinished(g)' \subseteq Unfinished(g)]_vars

(* Both generations ran two tasks each, the first one superseded while it *)
(* was running, and both threads have ended.                              *)
C16_Witness ==
    /\ ngen = 2
    /\ Cardinality(batch[1]) = 2
    /\ Cardinality(batch[2]) = 2
    /\ thread[1] = "exited"
    /\ thread[2] = "exited"
    /\ sink[1] = "cancelled"
    /\ lock = None

(* C17: a send that fails puts nothing on the channel and leaves the      *)
(* generation's flag true; a task of a generation that starts while the   *)
(* flag is true ends as skipped at once, and a skipped task never decodes *)
(* or sends.                                                               *)
C17_SendFailureCancels ==
    /\ [](\A g \in Gens : \A p \in DOMAIN task[g] :
             task[g][p].st = "dropped" => flag[g])
    /\ [][\A g \in Gens : \A p \in DOMAIN task[g] :
             task[g][p].st = "tosend" /\ p \in DOMAIN task'[g]
                 /\ task'[g][p].st = "dropped" =>
                    /\ ~ReceiverAlive(g)
                    /\ flag'[g]
                    /\ chan'[g] = chan[g]]_vars
    /\ [][\A g \in Gens : \A p \in DOMAIN task[g] :
             flag[g] /\ task[g][p].st = "pending" /\ p \in DOMAIN task'[g]
                 /\ task'[g][p] # task[g][p] =>
                    /\ task'[g][p].st = "skipped"
                    /\ UNCHANGED <<image_cache, lock, chan, last>>]_vars
    /\ [][\A g \in Gens : \A p \in DOMAIN task[g] :
             task[g][p].st = "skipped" /\ p \in DOMAIN task'[g] =>
                 task'[g][p].st = "skipped"]_vars

(* One task's send failed after the sink had stopped, and a task of the   *)
(* same generation that started later was skipped.                        *)
C17_Witness ==
    \E g \in Gens : \E p, q \in DOMAIN task[g] :
        /\ task[g][p].st = "dropped"
        /\ task[g][q].st = "skipped"
        /\ sink[g] = "cancelled"
        /\ flag[g]

(* The sequence s has `path` among its elements. *)
InSeq(s, path) == \E i \in DOMAIN s : s[i] = path

(* C18: a task is skipped exactly when it reads its generation's flag as  *)
(* true; the step that skips it changes nothing but the task's own state  *)
(* (no lock taken, no decode, no cache change, nothing sent), and the     *)
(* task takes no further step.                                             *)
C18_CancellationCheckpoint ==
    [][\A g \in Gens : \A p \in DOMAIN task[g] :
          /\ task[g][p].st = "pending" /\ p \in DOMAIN task'[g]
                 /\ task'[g][p] # task[g][p] =>
                    /\ flag[g] <=> task'[g][p].st = "skipped"
                    /\ ~flag[g] <=> task'[g][p].st = "checked"
                    /\ UNCHANGED <<image_cache, lock, chan, grid, flag, touch, last>>
                    /\ \A h \in Gens : \A q \in DOMAIN task[h] :
                          <<h, q>> # <<g, p>> => task'[h][q] = task[h][q]
          /\ task[g][p].st = "skipped" /\ p \in DOMAIN task'[g] =>
                 task'[g][p] = [st |-> "skipped", tex |-> None]]_vars

(* A task of a cancelled generation was skipped: its file can be decoded  *)
(* but was never looked up, decoded or cached.                            *)
C18_Witness ==
    \E g \in Gens : \E p \in DOMAIN task[g] :
        /\ task[g][p].st = "skipped"
        /\ flag[g]
        /\ p \notin Corrupt
        /\ p \notin DOMAIN image_cache.cache
        /\ ~InSeq(touch, p)
        /\ \A i \in DOMAIN chan[g] : chan[g][i].path # p

(* What one tick of generation g's sink must do, given the number k of    *)
(* grid entries the step added.                                           *)
TickEffect(g, k) ==
    /\ k >= 0 /\ k <= TICK_POLLS /\ k <= Len(chan[g])
    /\ grid' = grid \o Rendered(g, SubSeq(chan[g], 1, k))
    /\ IF flag[g]
       THEN k = 0 /\ sink'[g] = "cancelled"
       ELSE /\ k = TICK_POLLS \/ k = Len(chan[g])
            /\ chan'[g] = SubSeq(chan[g], k + 1, Len(chan[g]))
            /\ IF k < TICK_POLLS /\ thread[g] = "exited"
               THEN sink'[g] = "disconnected"
               ELSE sink'[g] = "scheduled"

(* C19: a scheduled sink can always run its tick when the UI thread is    *)
(* idle; a tick renders a prefix of the channel of at most TICK_POLLS     *)
(* results, ends at the poll limit or when the channel is empty and stays *)
(* scheduled, and stops exactly when it reads the flag as true at its     *)
(* start or polls an empty channel whose senders are gone; a sink that    *)
(* has stopped never runs again.                                          *)
C19_BoundedTick ==
    /\ [](\A g \in Gens : sink[g] = "scheduled" /\ ui.pc = "idle" => ENABLED SinkTick(g))
    /\ [][\A g \in Gens : SinkTick(g) => TickEffect(g, Len(grid') - Len(grid))]_vars
    /\ [][\A g \in Gens :
             /\ sink[g] \in {"cancelled", "disconnected"} => sink'[g] = sink[g]
             /\ sink[g] = "scheduled" /\ sink'[g] # "scheduled" => SinkTick(g)
             /\ (\E i \in DOMAIN grid' : grid'[i].gen = g) /\ grid' # grid /\ grid' # <<>>
                    => SinkTick(g)]_vars

(* A tick has rendered as many results as its poll limit allows and left  *)
(* a result on the channel for the next tick.                             *)
C19_Witness ==
    \E g \in Gens :
        /\ sink[g] = "scheduled"
        /\ ~flag[g]
        /\ Len(grid) = TICK_POLLS
        /\ \A i \in DOMAIN grid : grid[i].gen = g
        /\ chan[g] # <<>>

(* The tasks, of any generation, that are inside the lock scope. *)
InsideLock == {gp \in Gens \X AllPaths :
                  /\ gp[2] \in DOMAIN task[gp[1]]
                  /\ task[gp[1]][gp[2]].st = "locked"}

(* C20: at most one task of all generations is inside the lock scope, and *)
(* it is the holder of the lock; the cache changes only in the step that  *)
(* ends a lock scope, so no step of load_images empties or replaces it;   *)
(* a get_or_insert on a path that is cached does not decode and leaves    *)
(* the map as it is; no path is twice in the recency order.               *)
C20_SerializedCache ==
    /\ [](Cardinality(InsideLock) <= 1)
    /\ [](\A gp \in InsideLock : lock = gp)
    /\ [](\A i, j \in DOMAIN image_cache.order :
             image_cache.order[i] = image_cache.order[j] => i = j)
    /\ [][image_cache' # image_cache => lock # None /\ lock' = None]_vars
    /\ [][ui'.pc # ui.pc => image_cache' = image_cache]_vars
    /\ [][lock # None /\ lock' = None /\ lock[2] \in DOMAIN image_cache.cache =>
             /\ last'.path = lock[2]
             /\ ~last'.decoded
             /\ last'.res = image_cache.cache[lock[2]]
             /\ image_cache'.cache = image_cache.cache]_vars

(* A task of generation 2 found in the cache the texture a task of        *)
(* generation 1 had decoded for the same path, while the thread of        *)
(* generation 1 was still running.                                        *)
C20_Witness ==
    /\ ngen = 2
    /\ thread[1] = "running"
    /\ thread[2] = "running"
    /\ last.op = "get_or_insert"
    /\ last.res # None
    /\ ~last.decoded
    /\ last.path \in batch[1] \cap batch[2]
    /\ last.path \in DOMAIN task[2] /\ task[2][last.path].st = "tosend"

(* The paths listed in a recency order. *)
Range(s) == {s[i] : i \in DOMAIN s}

(* C21: when get_or_insert is the only call made on the cache, the        *)
(* recency order lists exactly the keys of the map, each once; an insert  *)
(* into a full cache removes from the map exactly the path at the back of *)
(* the order, a path that was a key of the map, and an insert into a      *)
(* cache that is not full removes nothing.                                *)
C21_OrderInSync ==
    /\ [](Range(image_cache.order) = DOMAIN image_cache.cache)
    /\ [](Len(image_cache.order) = Cardinality(DOMAIN image_cache.cache))
    /\ [][DOMAIN image_cache'.cache # DOMAIN image_cache.cache =>
             LET c == image_cache
                 gone == (DOMAIN c.cache) \ (DOMAIN image_cache'.cache)
             IN  /\ last'.decoded
                 /\ (DOMAIN image_cache'.cache) \ (DOMAIN c.cache) = {last'.path}
                 /\ Head(image_cache'.order) = last'.path
                 /\ IF Cardinality(DOMAIN c.cache) >= CACHE_SIZE
                    THEN /\ c.order # <<>>
                         /\ c.order[Len(c.order)] \in DOMAIN c.cache
                         /\ gone = {c.order[Len(c.order)]}
                         /\ Tail(image_cache'.order) = SubSeq(c.order, 1, Len(c.order) - 1)
                    ELSE /\ gone = {}
                         /\ Tail(image_cache'.order) = c.order]_vars

(* get_or_insert decoded an uncached path into a full cache and evicted   *)
(* the path at the back, after a hit had reordered the entries.           *)
C21_Witness ==
    /\ last.op = "get_or_insert"
    /\ last.decoded
    /\ last.res # None
    /\ Cardinality(last.evicted) = 1
    /\ Len(image_cache.order) = CACHE_SIZE
    /\ Head(image_cache.order) = last.path
    /\ Len(touch) > CACHE_SIZE

=============================================================================
